---- MODULE Spec2Model ----
(***************************************************************************)
(* Model of services/geminiService.ts: the four exported operations        *)
(* researchTopicForPrompt, generateInfographicImage, fixInfographicImage   *)
(* and editInfographicImage, each an async function that builds a request, *)
(* awaits one generateContent call and turns the response into its result. *)
(*                                                                         *)
(* Representation of strings.  A JavaScript string is a sequence of atoms. *)
(* An atom is a whitespace character (" ", "\n", "\t"), the bullet         *)
(* character "-", or a word: a run of characters without whitespace or a   *)
(* literal of the source taken whole.  The keywords the code searches for  *)
(* ("FACTS:", "IMAGE_PROMPT:", "16:9", "widescreen", the data-URI prefixes)*)
(* are always atoms of their own, so a search for a keyword is a search    *)
(* for an atom; no concatenation of other atoms spells a keyword.          *)
(*                                                                         *)
(* An optional value (undefined or present) is a sequence of length 0 or 1.*)
(* A string field that is undefined or "" is the empty string "": the code *)
(* only tests such fields for truthiness.                                  *)
(***************************************************************************)
EXTENDS Integers, Sequences, FiniteSets

\* ------------------------------------------------------------------------
\* Bounds of the explored input space
\* ------------------------------------------------------------------------
MaxSegs == 4
MaxChunks == 3
MaxParts == 3

\* ------------------------------------------------------------------------
\* Program constants (lines 14-16, 102)
\* ------------------------------------------------------------------------
TEXT_MODEL == "gemini-2.5-flash"
IMAGE_MODEL == "gemini-2.5-flash-image"
EDIT_MODEL == "gemini-2.5-flash-image"
MaxFacts == 5

\* ------------------------------------------------------------------------
\* Prompt builder (lines 18-44)
\* ------------------------------------------------------------------------
getLevelInstruction(level) ==
  CASE level = "Elementary" ->
       "Target Audience: Elementary School (Ages 6-10). Design Requirements: Extra large, bold text (minimum 24pt equivalent). Bright primary colors. Simple geometric icons and illustrations. Maximum 3-5 key points. Wide spacing between elements. Playful but clear layout. Minimal technical jargon."
    [] level = "High School" ->
       "Target Audience: High School (Ages 14-18). Design Requirements: Clear, readable text (18-22pt equivalent). Balanced color scheme. Mix of diagrams, charts, and illustrations. Include 5-8 key concepts. Standard infographic layout with sections. Some technical terms with visual explanations."
    [] level = "College" ->
       "Target Audience: University/College (Ages 18-25). Design Requirements: Detailed text (14-18pt equivalent). Professional color palette. Complex diagrams, data visualizations, and cross-sections. Include 8-12 detailed points. Dense but organized layout. Technical terminology with precise labels."
    [] level = "Expert" ->
       "Target Audience: Industry Expert/Professional. Design Requirements: Technical precision text (12-16pt equivalent). Sophisticated color scheme or monochrome. Highly detailed schematics, blueprints, and technical diagrams. Include 12+ comprehensive points. Dense information with hierarchical organization. Advanced technical terminology and precise annotations."
    [] OTHER ->
       "Target Audience: General Public. Design Requirements: Clear, accessible design with readable text and balanced complexity."

getStyleInstruction(style) ==
  CASE style = "Minimalist" ->
       "Aesthetic: Bauhaus Minimalist. Flat vector art with crisp edges. Limited color palette (2-3 bold colors). Heavy use of negative white space. Simple geometric shapes (circles, squares, lines). Sans-serif typography. Grid-based layout. High contrast. Ultra-clean composition."
    [] style = "Realistic" ->
       "Aesthetic: Photorealistic Composite. Professional photography style. Natural lighting and shadows. 8K resolution detail. Highly detailed textures and materials. Depth of field. Looks like a high-end magazine photo spread with real objects and environments."
    [] style = "Cartoon" ->
       "Aesthetic: Modern Educational Comic. Vibrant saturated colors. Bold black outlines (2-3px). Cel-shaded flat colors with simple highlights. Expressive character-like elements. Dynamic compositions. Speech bubbles or callouts. Friendly and engaging visual narrative style."
    [] style = "Vintage" ->
       "Aesthetic: 19th Century Scientific Lithograph. Hand-engraved appearance. Sepia, cream, and brown tones. Aged paper texture background. Fine cross-hatching and stippling. Ornate borders and decorative elements. Classical typography. Museum-quality historical scientific illustration."
    [] style = "Futuristic" ->
       "Aesthetic: Cyberpunk HUD Interface. Dark background (black or deep blue). Glowing neon lines (cyan, blue, magenta). Holographic translucent panels. Digital grid overlays. 3D wireframe elements. Geometric tech patterns. Sci-fi dashboard aesthetic with digital readouts and data streams."
    [] style = "3D Render" ->
       "Aesthetic: 3D Isometric Render. Clean isometric perspective. Smooth gradients and soft shadows. Glossy plastic or claymorphism materials. Studio lighting with rim lights. Soft ambient occlusion. Looks like a high-quality physical model or toy. Rounded corners and friendly shapes."
    [] style = "Sketch" ->
       "Aesthetic: Technical Blueprint/Da Vinci Notebook. Pen and ink style on cream parchment. Hand-drawn appearance with consistent line weight. Handwritten-style annotations and labels. Construction lines visible. Cross-sections and technical details. Looks like an architect's or inventor's working sketch."
    [] OTHER ->
       "Aesthetic: Modern Scientific Infographic. Clean digital illustration. Professional color palette. Clear hierarchy. Mix of icons, diagrams, and data visualizations. Contemporary design trends. Publication-quality. Balanced composition with proper spacing."

InstructionLowerCase(a) ==
  CASE a = "Target Audience: Elementary School (Ages 6-10). Design Requirements: Extra large, bold text (minimum 24pt equivalent). Bright primary colors. Simple geometric icons and illustrations. Maximum 3-5 key points. Wide spacing between elements. Playful but clear layout. Minimal technical jargon." ->
       "target audience: elementary school (ages 6-10). design requirements: extra large, bold text (minimum 24pt equivalent). bright primary colors. simple geometric icons and illustrations. maximum 3-5 key points. wide spacing between elements. playful but clear layout. minimal technical jargon."
    [] a = "Target Audience: High School (Ages 14-18). Design Requirements: Clear, readable text (18-22pt equivalent). Balanced color scheme. Mix of diagrams, charts, and illustrations. Include 5-8 key concepts. Standard infographic layout with sections. Some technical terms with visual explanations." ->
       "target audience: high school (ages 14-18). design requirements: clear, readable text (18-22pt equivalent). balanced color scheme. mix of diagrams, charts, and illustrations. include 5-8 key concepts. standard infographic layout with sections. some technical terms with visual explanations."
    [] a = "Target Audience: University/College (Ages 18-25). Design Requirements: Detailed text (14-18pt equivalent). Professional color palette. Complex diagrams, data visualizations, and cross-sections. Include 8-12 detailed points. Dense but organized layout. Technical terminology with precise labels." ->
       "target audience: university/college (ages 18-25). design requirements: detailed text (14-18pt equivalent). professional color palette. complex diagrams, data visualizations, and cross-sections. include 8-12 detailed points. dense but organized layout. technical terminology with precise labels."
    [] a = "Target Audience: Industry Expert/Professional. Design Requirements: Technical precision text (12-16pt equivalent). Sophisticated color scheme or monochrome. Highly detailed schematics, blueprints, and technical diagrams. Include 12+ comprehensive points. Dense information with hierarchical organization. Advanced technical terminology and precise annotations." ->
       "target audience: industry expert/professional. design requirements: technical precision text (12-16pt equivalent). sophisticated color scheme or monochrome. highly detailed schematics, blueprints, and technical diagrams. include 12+ comprehensive points. dense information with hierarchical organization. advanced technical terminology and precise annotations."
    [] a = "Target Audience: General Public. Design Requirements: Clear, accessible design with readable text and balanced complexity." ->
       "target audience: general public. design requirements: clear, accessible design with readable text and balanced complexity."
    [] a = "Aesthetic: Bauhaus Minimalist. Flat vector art with crisp edges. Limited color palette (2-3 bold colors). Heavy use of negative white space. Simple geometric shapes (circles, squares, lines). Sans-serif typography. Grid-based layout. High contrast. Ultra-clean composition." ->
       "aesthetic: bauhaus minimalist. flat vector art with crisp edges. limited color palette (2-3 bold colors). heavy use of negative white space. simple geometric shapes (circles, squares, lines). sans-serif typography. grid-based layout. high contrast. ultra-clean composition."
    [] a = "Aesthetic: Photorealistic Composite. Professional photography style. Natural lighting and shadows. 8K resolution detail. Highly detailed textures and materials. Depth of field. Looks like a high-end magazine photo spread with real objects and environments." ->
       "aesthetic: photorealistic composite. professional photography style. natural lighting and shadows. 8k resolution detail. highly detailed textures and materials. depth of field. looks like a high-end magazine photo spread with real objects and environments."
    [] a = "Aesthetic: Modern Educational Comic. Vibrant saturated colors. Bold black outlines (2-3px). Cel-shaded flat colors with simple highlights. Expressive character-like elements. Dynamic compositions. Speech bubbles or callouts. Friendly and engaging visual narrative style." ->
       "aesthetic: modern educational comic. vibrant saturated colors. bold black outlines (2-3px). cel-shaded flat colors with simple highlights. expressive character-like elements. dynamic compositions. speech bubbles or callouts. friendly and engaging visual narrative style."
    [] a = "Aesthetic: 19th Century Scientific Lithograph. Hand-engraved appearance. Sepia, cream, and brown tones. Aged paper texture background. Fine cross-hatching and stippling. Ornate borders and decorative elements. Classical typography. Museum-quality historical scientific illustration." ->
       "aesthetic: 19th century scientific lithograph. hand-engraved appearance. sepia, cream, and brown tones. aged paper texture background. fine cross-hatching and stippling. ornate borders and decorative elements. classical typography. museum-quality historical scientific illustration."
    [] a = "Aesthetic: Cyberpunk HUD Interface. Dark background (black or deep blue). Glowing neon lines (cyan, blue, magenta). Holographic translucent panels. Digital grid overlays. 3D wireframe elements. Geometric tech patterns. Sci-fi dashboard aesthetic with digital readouts and data streams." ->
       "aesthetic: cyberpunk hud interface. dark background (black or deep blue). glowing neon lines (cyan, blue, magenta). holographic translucent panels. digital grid overlays. 3d wireframe elements. geometric tech patterns. sci-fi dashboard aesthetic with digital readouts and data streams."
    [] a = "Aesthetic: 3D Isometric Render. Clean isometric perspective. Smooth gradients and soft shadows. Glossy plastic or claymorphism materials. Studio lighting with rim lights. Soft ambient occlusion. Looks like a high-quality physical model or toy. Rounded corners and friendly shapes." ->
       "aesthetic: 3d isometric render. clean isometric perspective. smooth gradients and soft shadows. glossy plastic or claymorphism materials. studio lighting with rim lights. soft ambient occlusion. looks like a high-quality physical model or toy. rounded corners and friendly shapes."
    [] a = "Aesthetic: Technical Blueprint/Da Vinci Notebook. Pen and ink style on cream parchment. Hand-drawn appearance with consistent line weight. Handwritten-style annotations and labels. Construction lines visible. Cross-sections and technical details. Looks like an architect's or inventor's working sketch." ->
       "aesthetic: technical blueprint/da vinci notebook. pen and ink style on cream parchment. hand-drawn appearance with consistent line weight. handwritten-style annotations and labels. construction lines visible. cross-sections and technical details. looks like an architect's or inventor's working sketch."
    [] a = "Aesthetic: Modern Scientific Infographic. Clean digital illustration. Professional color palette. Clear hierarchy. Mix of icons, diagrams, and data visualizations. Contemporary design trends. Publication-quality. Balanced composition with proper spacing." ->
       "aesthetic: modern scientific infographic. clean digital illustration. professional color palette. clear hierarchy. mix of icons, diagrams, and data visualizations. contemporary design trends. publication-quality. balanced composition with proper spacing."
    [] OTHER -> a
systemPrompt(topic, levelInstr, styleInstr, language) ==
  <<"\n    You are an expert visual researcher and infographic designer.\n    Your goal is to research the topic: \"">>
    \o topic
    \o <<"\" and create a detailed prompt for a professional infographic.\n\n    **IMPORTANT: Use the Google Search tool to find the most accurate, up-to-date information about this topic.**\n\n    Context:\n    ">>
    \o <<levelInstr>>
    \o <<"\n    ">>
    \o <<styleInstr>>
    \o <<"\n    Language: ">>
    \o <<language>>
    \o <<"\n\n    Please provide your response in the following format EXACTLY:\n\n    FACTS:\n    - [Fact 1]\n    - [Fact 2]\n    - [Fact 3]\n\n    IMAGE_PROMPT:\n    [A highly detailed image generation prompt that must include:\n    - Explicit instruction: \"Create a 16:9 widescreen format infographic\"\n    - Overall composition and layout (horizontal panels, flowcharts, diagrams, etc.)\n    - Specific visual elements (icons, charts, illustrations, data visualizations)\n    - Color scheme and palette\n    - Typography guidance (large, readable text in ">>
    \o <<language>>
    \o <<")\n    - Background treatment\n    - Any specific design patterns appropriate for the style\n    Do not include citations or references in the prompt.]\n  ">>

enhancedPrompt(prompt) ==
  prompt
    \o <<"\n\nCRITICAL REQUIREMENTS:\n- Format: 16:9 aspect ratio (widescreen/landscape orientation)\n- Resolution: High-definition, print-quality\n- Text: All text must be large, legible, and perfectly readable\n- Layout: Professional infographic design with clear visual hierarchy\n- Graphics: Sharp, detailed, high-contrast elements\n- Background: Clean and complementary to the content\n- Overall: Publication-ready quality suitable for educational or professional use">>

fixPrompt(correctionPrompt) ==
  <<"\n    Edit this image. \n    Goal: Simplify and Fix.\n    Instruction: ">>
    \o correctionPrompt
    \o <<".\n    Ensure the design is clean and any text is large and legible.\n  ">>

enhancedInstruction(editInstruction) ==
  editInstruction
    \o <<"\n\nMAINTAIN QUALITY STANDARDS:\n- Keep 16:9 aspect ratio\n- Maintain high resolution and clarity\n- Ensure all text remains large and readable\n- Keep professional infographic quality\n- Preserve visual hierarchy and composition balance">>
\* ------------------------------------------------------------------------
\* String primitives used by the parser
\* ------------------------------------------------------------------------
\* String.prototype.toLowerCase on one atom.
LowerAtom(a) ==
  CASE a = "FACTS:" -> "facts:"
    [] a = "Facts:" -> "facts:"
    [] a = "IMAGE_PROMPT:" -> "image_prompt:"
    [] a = "Image_Prompt:" -> "image_prompt:"
    [] a = "WideScreen" -> "widescreen"
    [] a = "WIDESCREEN" -> "widescreen"
    [] a = "A" -> "a"
    [] a = "B" -> "b"
    [] a = "C" -> "c"
    [] a = "D" -> "d"
    [] a = "E" -> "e"
    [] a = "Volcanoes" -> "volcanoes"
    [] a = "Black" -> "black"
    [] a = "Holes" -> "holes"
    [] a = "Create a " -> "create a "
    [] a = "Create a detailed " -> "create a detailed "
    [] a = "High resolution, professional quality, crisp and clear details, well-balanced composition, maximum visual clarity." ->
           "high resolution, professional quality, crisp and clear details, well-balanced composition, maximum visual clarity."
    [] OTHER -> InstructionLowerCase(a)

ToLowerCase(s) == [i \in 1..Len(s) |-> LowerAtom(s[i])]

\* String.prototype.includes for a keyword.
Includes(s, kw) == \E i \in 1..Len(s) : s[i] = kw

\* The characters matched by \s and removed by trim().
IsSpace(a) == a \in {" ", "\n", "\t"}

RECURSIVE TrimStart(_)
TrimStart(s) ==
  IF s # <<>> /\ IsSpace(Head(s)) THEN TrimStart(Tail(s)) ELSE s

RECURSIVE TrimEnd(_)
TrimEnd(s) ==
  IF s # <<>> /\ IsSpace(s[Len(s)]) THEN TrimEnd(SubSeq(s, 1, Len(s) - 1)) ELSE s

Trim(s) == TrimEnd(TrimStart(s))

\* Leftmost position where a keyword matches under the regex flag i, 0 if none.
SearchCI(s, kw) ==
  IF \E i \in 1..Len(s) : LowerAtom(s[i]) = kw
  THEN CHOOSE i \in 1..Len(s) :
         /\ LowerAtom(s[i]) = kw
         /\ \A j \in 1..(i - 1) : LowerAtom(s[j]) # kw
  ELSE 0

\* String.prototype.split('\n').
RECURSIVE Split(_)
Split(s) ==
  IF \E i \in 1..Len(s) : s[i] = "\n"
  THEN LET i == CHOOSE k \in 1..Len(s) :
                  s[k] = "\n" /\ \A j \in 1..(k - 1) : s[j] # "\n"
       IN <<SubSeq(s, 1, i - 1)>> \o Split(SubSeq(s, i + 1, Len(s)))
  ELSE <<s>>

\* ------------------------------------------------------------------------
\* Response parser: facts (lines 94-102)
\* ------------------------------------------------------------------------
\* response.text || ""
ResponseText(response) ==
  IF response.text = <<>> THEN <<>> ELSE response.text[1]

\* text.match(/FACTS:\s*([\s\S]*?)(?=IMAGE_PROMPT:|$)/i): no match is <<>>,
\* a match is <<capture group 1>>.
factsMatch(text) ==
  LET h == SearchCI(text, "facts:") IN
  IF h = 0 THEN <<>>
  ELSE LET rest == TrimStart(SubSeq(text, h + 1, Len(text)))
           stop == SearchCI(rest, "image_prompt:")
       IN <<IF stop = 0 THEN rest ELSE SubSeq(rest, 1, stop - 1)>>

factsRaw(text) ==
  IF factsMatch(text) # <<>> THEN Trim(factsMatch(text)[1]) ELSE <<>>

\* f.replace(/^-\s*/, '').trim()
CleanLine(f) ==
  Trim(IF f # <<>> /\ Head(f) = "-" THEN TrimStart(Tail(f)) ELSE f)

\* .map(...).filter(f => f.length > 0)
CleanedLines(text) ==
  LET lines == Split(factsRaw(text))
      mapped == [i \in 1..Len(lines) |-> CleanLine(lines[i])]
  IN SelectSeq(mapped, LAMBDA f : Len(f) > 0)

\* Variant: the slice keeps one entry too many.
SliceFactsOffByOne(fs) ==
  SubSeq(fs, 1, IF Len(fs) < MaxFacts + 1 THEN Len(fs) ELSE MaxFacts + 1)

\* .slice(0, 5)
SliceFacts(fs) ==
  SubSeq(fs, 1, IF Len(fs) < MaxFacts THEN Len(fs) ELSE MaxFacts)

facts(text) == SliceFacts(CleanedLines(text))

\* ------------------------------------------------------------------------
\* Response parser: image prompt (lines 104-114)
\* ------------------------------------------------------------------------
\* text.match(/IMAGE_PROMPT:\s*([\s\S]*?)$/i)
promptMatch(text) ==
  LET h == SearchCI(text, "image_prompt:") IN
  IF h = 0 THEN <<>>
  ELSE <<TrimStart(SubSeq(text, h + 1, Len(text)))>>

FallbackPrompt(topic, levelInstr, styleInstr) ==
  <<"Create a detailed ", "16:9", " ", "widescreen", " format infographic about ">>
    \o topic \o <<".", " ", levelInstr, " ", styleInstr>>

\* Variant: a missing section gives an empty prompt instead of the fallback.
BasePromptNoFallback(text, topic, levelInstr, styleInstr) ==
  IF promptMatch(text) # <<>> THEN Trim(promptMatch(text)[1]) ELSE <<>>

BasePrompt(text, topic, levelInstr, styleInstr) ==
  IF promptMatch(text) # <<>>
  THEN Trim(promptMatch(text)[1])
  ELSE FallbackPrompt(topic, levelInstr, styleInstr)

AspectRatioPrefix ==
  <<"Create a ", "16:9", " ", "widescreen", " format infographic.", " ">>

\* Variant: the tokens are searched without lowering the prompt.
EnsureAspectRatioCaseSensitive(p) ==
  IF ~Includes(p, "16:9") /\ ~Includes(p, "widescreen")
  THEN AspectRatioPrefix \o p
  ELSE p

EnsureAspectRatio(p) ==
  IF ~Includes(ToLowerCase(p), "16:9") /\ ~Includes(ToLowerCase(p), "widescreen")
  THEN AspectRatioPrefix \o p
  ELSE p

QualitySentence ==
  "High resolution, professional quality, crisp and clear details, well-balanced composition, maximum visual clarity."

\* Variant: the sentence is appended only when the prompt lacks it.
AddQualitySuffixIfAbsent(p) ==
  IF Includes(p, QualitySentence) THEN p ELSE p \o <<" ", QualitySentence>>

AddQualitySuffix(p) == p \o <<" ", QualitySentence>>

imagePrompt(text, topic, levelInstr, styleInstr) ==
  AddQualitySuffix(EnsureAspectRatio(BasePrompt(text, topic, levelInstr, styleInstr)))

\* ------------------------------------------------------------------------
\* Response parser: grounding citations (lines 116-132)
\* ------------------------------------------------------------------------
\* response.candidates?.[0]?.groundingMetadata?.groundingChunks
GroundingChunks(response) ==
  IF response.candidates = <<>> THEN <<>>
  ELSE response.candidates[1].groundingChunks

\* chunk.web?.uri && chunk.web?.title
HasWebRef(chunk) ==
  chunk.web # <<>> /\ chunk.web[1].uri # "" /\ chunk.web[1].title # ""

searchResults(response) ==
  IF GroundingChunks(response) = <<>> THEN <<>>
  ELSE LET chunks == GroundingChunks(response)[1]
           kept == SelectSeq(chunks, HasWebRef)
       IN [i \in 1..Len(kept) |->
             [title |-> kept[i].web[1].title, url |-> kept[i].web[1].uri]]

\* Map.prototype.set on an insertion-ordered list of entries: an existing
\* key keeps its position and takes the new value, a new key is appended.
MapSet(entries, item) ==
  IF \E i \in 1..Len(entries) : entries[i].url = item.url
  THEN [i \in 1..Len(entries) |->
          IF entries[i].url = item.url THEN item ELSE entries[i]]
  ELSE Append(entries, item)

\* new Map(iterable): the entries are set in order.
RECURSIVE NewMap(_)
NewMap(items) ==
  IF items = <<>> THEN <<>>
  ELSE MapSet(NewMap(SubSeq(items, 1, Len(items) - 1)), items[Len(items)])

\* Variant: a repeated key is appended again.
uniqueResultsKeepAll(items) == items

\* Array.from(new Map(searchResults.map(item => [item.url, item])).values())
uniqueResults(items) == NewMap(items)

\* ------------------------------------------------------------------------
\* Image operations (lines 141-251)
\* ------------------------------------------------------------------------
SamplingConfig == [temperature |-> "0.4", topK |-> 32, topP |-> "0.95"]

DataUriPrefix == "data:image/png;base64,"

\* currentImageBase64.replace(/^data:image\/(png|jpeg|jpg);base64,/, '')
cleanBase64(image) ==
  IF image # <<>> /\ Head(image) \in {"data:image/png;base64,",
                                      "data:image/jpeg;base64,",
                                      "data:image/jpg;base64,"}
  THEN Tail(image)
  ELSE image

\* response.candidates?.[0]?.content?.parts || []
ContentParts(response) ==
  IF response.candidates = <<>> THEN <<>>
  ELSE IF response.candidates[1].parts = <<>> THEN <<>>
  ELSE response.candidates[1].parts[1]

\* part.inlineData && part.inlineData.data
HasInlineData(part) ==
  part.inlineData # <<>> /\ part.inlineData[1].data # ""

\* Variant: the scan keeps going and the last inline image wins.
LastInlineImage(parts) ==
  IF \E i \in 1..Len(parts) : HasInlineData(parts[i])
  THEN LET i == CHOOSE k \in 1..Len(parts) :
                  /\ HasInlineData(parts[k])
                  /\ \A j \in (k + 1)..Len(parts) : ~HasInlineData(parts[j])
       IN <<<<DataUriPrefix, parts[i].inlineData[1].data>>>>
  ELSE <<>>

\* for (const part of parts) { if (...) return `data:image/png;base64,${...}` }
\* <<>> when the loop ends without returning.
FirstInlineImage(parts) ==
  IF \E i \in 1..Len(parts) : HasInlineData(parts[i])
  THEN LET i == CHOOSE k \in 1..Len(parts) :
                  /\ HasInlineData(parts[k])
                  /\ \A j \in 1..(k - 1) : ~HasInlineData(parts[j])
       IN <<<<DataUriPrefix, parts[i].inlineData[1].data>>>>
  ELSE <<>>

\* ------------------------------------------------------------------------
\* Input space
\* ------------------------------------------------------------------------
Topics == {<<"Volcanoes">>, <<"Black", " ", "Holes">>}
Levels == {"Expert", "Toddler"}
Styles == {"Sketch"}
Languages == {"English"}

Prompts == {<<"Create", " ", "a", " ", "16:9", " ", "infographic">>, <<>>}
Instructions == {<<"make", " ", "the", " ", "title", " ", "bigger">>}
Images ==
  {<<"data:image/png;base64,", "d0">>, <<"data:image/jpeg;base64,", "d0">>,
   <<"data:image/jpg;base64,", "d0">>, <<"data:image/gif;base64,", "d0">>,
   <<"d0">>}

\* Pieces a response text is assembled from.
Fragments ==
  {<<"Facts:", "\n">>,
   <<"-", " ", "A", "\n">>,
   <<" ", "-", " ", "B", "\n">>,
   <<"-", "C", "\n", "\n", "-", "\t", "D", " ", "\n", "-", " ", "-", " ", "E", "\n">>,
   <<"Image_Prompt:", " ">>,
   <<"WideScreen", " ">>,
   <<"16:9", "\n">>,
   <<QualitySentence>>}

SeqsUpTo(S, n) == UNION {[1..k -> S] : k \in 0..n}

RECURSIVE Concat(_)
Concat(ss) == IF ss = <<>> THEN <<>> ELSE Head(ss) \o Concat(Tail(ss))

Texts == {Concat(fs) : fs \in SeqsUpTo(Fragments, MaxSegs)}

Uris == {"", "u1", "u2"}
Titles == {"", "T1", "T2"}
Chunks ==
  {[web |-> <<>>]} \cup {[web |-> <<[uri |-> u, title |-> t]>>] : u \in Uris, t \in Titles}

Parts ==
  {[inlineData |-> <<>>]}
    \cup {[inlineData |-> <<[mimeType |-> "image/png", data |-> d]>>] : d \in {"", "d1", "d2"}}

SampleText ==
  <<"FACTS:", "\n", "-", " ", "A", "\n", "-", " ", "B", "\n",
    "IMAGE_PROMPT:", "\n", "Foo">>

\* Headers that the patterns do not recognise.
MalformedText ==
  <<"FACTS", "\n", "-", " ", "A", "\n", "IMAGE", " ", "PROMPT:", "\n", "Foo">>

\* What the text endpoint may answer: any text without grounding, or a
\* fixed text with any grounding metadata.
TextResponses ==
  {[text |-> <<t>>, candidates |-> <<>>] : t \in Texts \cup {MalformedText}}
    \cup {[text |-> <<>>, candidates |-> <<>>]}
    \cup {[text |-> <<SampleText>>,
           candidates |-> <<[groundingChunks |-> g, parts |-> <<>>]>>] :
            g \in {<<>>} \cup {<<cs>> : cs \in SeqsUpTo(Chunks, MaxChunks)}}

\* What the image endpoint may answer.
ImageResponses ==
  {[text |-> <<>>, candidates |-> <<>>]}
    \cup {[text |-> <<>>,
           candidates |-> <<[groundingChunks |-> <<>>, parts |-> p]>>] :
            p \in {<<>>} \cup {<<ps>> : ps \in SeqsUpTo(Parts, MaxParts)}}

TransportErrors ==
  {"401 UNAUTHENTICATED", "429 RESOURCE_EXHAUSTED", "fetch failed"}

\* ------------------------------------------------------------------------
\* State
\* ------------------------------------------------------------------------
VARIABLES
  pc,           \* "idle", "awaiting", "resolved", "rejected", "done"
  op,           \* the exported operation that was invoked
  args,         \* its arguments
  request,      \* the argument of the generateContent call
  calls,        \* number of generateContent calls made
  response,     \* optional: the value the awaited call resolved with
  remoteError,  \* optional: the error the awaited call rejected with
  result,       \* optional: the value the operation's promise resolved with
  error         \* optional: the error the operation's promise rejected with

vars == <<pc, op, args, request, calls, response, remoteError, result, error>>

ImageOps == {"generateInfographicImage", "fixInfographicImage", "editInfographicImage"}

Init ==
  /\ pc = "idle"
  /\ op = "none"
  /\ args = <<>>
  /\ request = <<>>
  /\ calls = 0
  /\ response = <<>>
  /\ remoteError = <<>>
  /\ result = <<>>
  /\ error = <<>>

\* getAi().models.generateContent(req): the call is issued and awaited.
generateContent(req) ==
  /\ request' = <<req>>
  /\ calls' = calls + 1
  /\ pc' = "awaiting"
  /\ UNCHANGED <<response, remoteError, result, error>>

\* researchTopicForPrompt up to its await (lines 46-92).
researchCall ==
  \E topic \in Topics, level \in Levels, style \in Styles, language \in Languages :
    /\ pc = "idle"
    /\ op' = "researchTopicForPrompt"
    /\ args' = [topic |-> topic, level |-> level, style |-> style, language |-> language]
    /\ generateContent(
         [model |-> TEXT_MODEL,
          contents |-> systemPrompt(topic, getLevelInstruction(level),
                                    getStyleInstruction(style), language),
          tools |-> <<"googleSearch">>,
          config |-> <<>>])

\* generateInfographicImage up to its await (lines 141-163).
generateCall ==
  \E prompt \in Prompts :
    /\ pc = "idle"
    /\ op' = "generateInfographicImage"
    /\ args' = [prompt |-> prompt]
    /\ generateContent(
         [model |-> IMAGE_MODEL,
          contents |-> <<[text |-> enhancedPrompt(prompt)]>>,
          tools |-> <<>>,
          config |-> <<SamplingConfig>>])

\* fixInfographicImage up to its await (lines 189-207).
fixCall ==
  \E image \in Images, correctionPrompt \in Instructions :
    /\ pc = "idle"
    /\ op' = "fixInfographicImage"
    /\ args' = [image |-> image, instruction |-> correctionPrompt]
    /\ generateContent(
         [model |-> EDIT_MODEL,
          contents |-> <<[inlineData |-> [mimeType |-> "image/jpeg", data |-> cleanBase64(image)]],
                         [text |-> fixPrompt(correctionPrompt)]>>,
          tools |-> <<>>,
          config |-> <<>>])

\* editInfographicImage up to its await (lines 218-243).
editCall ==
  \E image \in Images, editInstruction \in Instructions :
    /\ pc = "idle"
    /\ op' = "editInfographicImage"
    /\ args' = [image |-> image, instruction |-> editInstruction]
    /\ generateContent(
         [model |-> EDIT_MODEL,
          contents |-> <<[inlineData |-> [mimeType |-> "image/jpeg", data |-> cleanBase64(image)]],
                         [text |-> enhancedInstruction(editInstruction)]>>,
          tools |-> <<>>,
          config |-> <<SamplingConfig>>])

\* The provider answers the pending call.
RemoteRespond ==
  /\ pc = "awaiting"
  /\ \E r \in IF op = "researchTopicForPrompt" THEN TextResponses ELSE ImageResponses :
       response' = <<r>>
  /\ pc' = "resolved"
  /\ UNCHANGED <<op, args, request, calls, remoteError, result, error>>

\* The pending call fails (authentication, quota, network).
RemoteFail ==
  /\ pc = "awaiting"
  /\ \E e \in TransportErrors : remoteError' = <<e>>
  /\ pc' = "rejected"
  /\ UNCHANGED <<op, args, request, calls, response, result, error>>

\* Variant: a rejected call is issued once more before giving up.
AwaitThrowsAfterRetry ==
  /\ pc = "rejected"
  /\ IF calls < 2
     THEN /\ calls' = calls + 1
          /\ remoteError' = <<>>
          /\ pc' = "awaiting"
          /\ UNCHANGED error
     ELSE /\ error' = remoteError
          /\ pc' = "done"
          /\ UNCHANGED <<calls, remoteError>>
  /\ UNCHANGED <<op, args, request, response, result>>

\* await on a rejected promise inside an async function with no try/catch:
\* the function's own promise rejects with the same error.
AwaitThrows ==
  /\ pc = "rejected"
  /\ error' = remoteError
  /\ pc' = "done"
  /\ UNCHANGED <<op, args, request, calls, response, remoteError, result>>

\* researchTopicForPrompt after its await (lines 94-139).
researchReturn ==
  /\ pc = "resolved"
  /\ op = "researchTopicForPrompt"
  /\ LET text == ResponseText(response[1])
         levelInstr == getLevelInstruction(args.level)
         styleInstr == getStyleInstruction(args.style)
     IN result' = <<[imagePrompt |-> imagePrompt(text, args.topic, levelInstr, styleInstr),
                     facts |-> facts(text),
                     searchResults |-> uniqueResults(searchResults(response[1]))]>>
  /\ pc' = "done"
  /\ UNCHANGED <<op, args, request, calls, response, remoteError, error>>

\* The tail shared by the three image operations: return the first inline
\* image as a data URI, or throw new Error(message).
ReturnImageOrThrow(message) ==
  LET found == FirstInlineImage(ContentParts(response[1])) IN
  /\ result' = found
  /\ error' = IF found = <<>> THEN <<message>> ELSE <<>>
  /\ pc' = "done"
  /\ UNCHANGED <<op, args, request, calls, response, remoteError>>

\* generateInfographicImage after its await (lines 165-171).
generateReturn ==
  /\ pc = "resolved"
  /\ op = "generateInfographicImage"
  /\ ReturnImageOrThrow("Failed to generate image")

\* fixInfographicImage after its await (lines 209-215).
fixReturn ==
  /\ pc = "resolved"
  /\ op = "fixInfographicImage"
  /\ ReturnImageOrThrow("Failed to fix image")

\* editInfographicImage after its await (lines 245-251).
editReturn ==
  /\ pc = "resolved"
  /\ op = "editInfographicImage"
  /\ ReturnImageOrThrow("Failed to edit image")

Next ==
  \/ researchCall
  \/ generateCall
  \/ fixCall
  \/ editCall
  \/ RemoteRespond
  \/ RemoteFail
  \/ AwaitThrows
  \/ researchReturn
  \/ generateReturn
  \/ fixReturn
  \/ editReturn

Spec == Init /\ [][Next]_vars

\* ------------------------------------------------------------------------
\* Properties
\* ------------------------------------------------------------------------
ResearchDone ==
  pc = "done" /\ op = "researchTopicForPrompt" /\ response # <<>> /\ result # <<>>

ImageDone == pc = "done" /\ op \in ImageOps /\ response # <<>>

Count(s, a) == Cardinality({i \in 1..Len(s) : s[i] = a})

ContainsSeq(s, t) ==
  \E i \in 0..(Len(s) - Len(t)) : SubSeq(s, i + 1, i + Len(t)) = t

\* The grounding chunks of the response that carry a non-empty uri and title.
ValidChunks ==
  IF response[1].candidates = <<>> THEN <<>>
  ELSE IF response[1].candidates[1].groundingChunks = <<>> THEN <<>>
  ELSE SelectSeq(response[1].candidates[1].groundingChunks[1],
                 LAMBDA c : c.web # <<>> /\ c.web[1].uri # "" /\ c.web[1].title # "")

FirstChunkWith(url) ==
  CHOOSE k \in 1..Len(ValidChunks) :
    /\ ValidChunks[k].web[1].uri = url
    /\ \A j \in 1..(k - 1) : ValidChunks[j].web[1].uri # url

\* C1: the citation returned for a URL carries the title of the first chunk
\* that had that URL.
C1_FirstTitleRetained ==
  ResearchDone =>
    \A i \in 1..Len(result[1].searchResults) :
      LET item == result[1].searchResults[i] IN
      /\ \E k \in 1..Len(ValidChunks) : ValidChunks[k].web[1].uri = item.url
      /\ item.title = ValidChunks[FirstChunkWith(item.url)].web[1].title

\* C2: searchResults has no two items with the same url, has exactly one
\* item per URL of a chunk with non-empty uri and title, lists the URLs in
\* the order of their first occurrence, and is empty without chunks.
C2_UniqueUrlsInFirstOccurrenceOrder ==
  ResearchDone =>
    LET sr == result[1].searchResults IN
    /\ \A i, j \in 1..Len(sr) : i # j => sr[i].url # sr[j].url
    /\ {sr[i].url : i \in 1..Len(sr)}
         = {ValidChunks[k].web[1].uri : k \in 1..Len(ValidChunks)}
    /\ \A i, j \in 1..Len(sr) :
         i < j => FirstChunkWith(sr[i].url) < FirstChunkWith(sr[j].url)
    /\ (GroundingChunks(response[1]) = <<>> => sr = <<>>)

C2_Witness ==
  /\ ResearchDone
  /\ Len(ValidChunks) = 3
  /\ Len(result[1].searchResults) = 2
  /\ ValidChunks[1].web[1].uri = ValidChunks[3].web[1].uri

\* The IMAGE_PROMPT section of the response text: everything after the
\* first header, <<>> when there is no header.
PromptSection ==
  LET text == ResponseText(response[1]) IN
  IF \E i \in 1..Len(text) : LowerAtom(text[i]) = "image_prompt:"
  THEN LET h == CHOOSE i \in 1..Len(text) :
                  /\ LowerAtom(text[i]) = "image_prompt:"
                  /\ \A j \in 1..(i - 1) : LowerAtom(text[j]) # "image_prompt:"
       IN SubSeq(text, h + 1, Len(text))
  ELSE <<>>

\* C3 as stated: the returned prompt ends with the quality sentence and the
\* sentence occurs exactly once in it.
C3_QualitySentenceExactlyOnce ==
  ResearchDone =>
    LET p == result[1].imagePrompt IN
    /\ p[Len(p)] = QualitySentence
    /\ Count(p, QualitySentence) = 1

\* C3 amended: the returned prompt ends with the quality sentence, which is
\* appended once whatever the prompt holds: it occurs one more time than in
\* the IMAGE_PROMPT section (or fallback prompt) the prompt was built from.
C3_QualitySentenceAppendedOnce ==
  ResearchDone =>
    LET p == result[1].imagePrompt IN
    /\ Len(p) >= 2
    /\ p[Len(p)] = QualitySentence
    /\ p[Len(p) - 1] = " "
    /\ Count(p, QualitySentence) = 1 + Count(PromptSection, QualitySentence)

C3_Witness ==
  /\ ResearchDone
  /\ Count(PromptSection, QualitySentence) = 1
  /\ Count(result[1].imagePrompt, QualitySentence) = 2

\* C4: the three image operations send the same fixed sampling parameters.
C4_SameSamplingParameters ==
  (op \in ImageOps /\ request # <<>>) => request[1].config = <<SamplingConfig>>

\* The FACTS section of the response text, as the claim reads it: each line
\* without surrounding whitespace and without its leading bullet marker.
BulletStripped(line) ==
  LET t == Trim(line) IN
  Trim(IF t # <<>> /\ Head(t) = "-" THEN Tail(t) ELSE t)

ExpectedFacts ==
  LET lines == Split(factsRaw(ResponseText(response[1])))
      cleaned == SelectSeq([i \in 1..Len(lines) |-> BulletStripped(lines[i])],
                           LAMBDA f : f # <<>>)
  IN SubSeq(cleaned, 1, IF Len(cleaned) < MaxFacts THEN Len(cleaned) ELSE MaxFacts)

\* C5: every fact is its line with the bullet marker and the surrounding
\* whitespace removed, also when whitespace precedes the marker.
C5_BulletAndWhitespaceRemoved ==
  ResearchDone => result[1].facts = ExpectedFacts

\* C6: facts has at most 5 entries and is exactly the first min(5, n) of the
\* n non-empty cleaned lines of the FACTS section, in order; more than 5 are
\* truncated without an error; without a FACTS section facts is empty.
C6_FirstFiveFactsInOrder ==
  ResearchDone =>
    LET text == ResponseText(response[1])
        fs == result[1].facts
        n == Len(CleanedLines(text))
    IN /\ Len(fs) <= 5
       /\ Len(fs) = (IF n < 5 THEN n ELSE 5)
       /\ \A i \in 1..Len(fs) : fs[i] = CleanedLines(text)[i]
       /\ error = <<>>
       /\ ((\A i \in 1..Len(text) : LowerAtom(text[i]) # "facts:") => fs = <<>>)

C6_Witness ==
  /\ ResearchDone
  /\ Len(CleanedLines(ResponseText(response[1]))) > 5
  /\ Len(result[1].facts) = 5

\* The local error of each image operation.
MissingOutputError(o) ==
  CASE o = "generateInfographicImage" -> "Failed to generate image"
    [] o = "fixInfographicImage" -> "Failed to fix image"
    [] o = "editInfographicImage" -> "Failed to edit image"

\* The parts of the response that carry inline image data.
InlineParts ==
  IF response[1].candidates = <<>> THEN <<>>
  ELSE IF response[1].candidates[1].parts = <<>> THEN <<>>
  ELSE SelectSeq(response[1].candidates[1].parts[1],
                 LAMBDA p : p.inlineData # <<>> /\ p.inlineData[1].data # "")

\* C7: an image operation fails with its missing-output error when no part
\* carries inline image data, and otherwise returns the data URI of the
\* first such part.
C7_FirstInlineImageOrError ==
  ImageDone =>
    IF InlineParts = <<>>
    THEN result = <<>> /\ error = <<MissingOutputError(op)>>
    ELSE /\ error = <<>>
         /\ result = <<<<"data:image/png;base64,", InlineParts[1].inlineData[1].data>>>>

C7_Witness ==
  /\ ImageDone
  /\ Len(InlineParts) = 2
  /\ InlineParts[1].inlineData[1].data # InlineParts[2].inlineData[1].data
  /\ response[1].candidates[1].parts[1][1].inlineData = <<>>
  /\ result # <<>>

\* C8: the 16:9 sentence is prepended if and only if the extracted or
\* fallback prompt contains neither "16:9" nor "widescreen" in any case.
C8_AspectPrefixIffNoToken ==
  ResearchDone =>
    LET base == BasePrompt(ResponseText(response[1]), args.topic,
                           getLevelInstruction(args.level),
                           getStyleInstruction(args.style))
        hasToken == \E i \in 1..Len(base) :
                      LowerAtom(base[i]) \in {"16:9", "widescreen"}
        suffix == <<" ", QualitySentence>>
    IN result[1].imagePrompt
         = (IF hasToken THEN base
            ELSE <<"Create a ", "16:9", " ", "widescreen", " format infographic.", " ">> \o base)
           \o suffix

C8_Witness ==
  /\ ResearchDone
  /\ Count(PromptSection, "WideScreen") = 1
  /\ Count(PromptSection, "16:9") = 0
  /\ Count(result[1].imagePrompt, "widescreen") = 0

\* C9: parsing never raises; without an IMAGE_PROMPT: section the prompt is
\* the fallback built from topic, level instruction and style instruction
\* and contains the topic; an empty text gives no facts and the fallback.
C9_ParsingTotalWithFallback ==
  (pc = "done" /\ op = "researchTopicForPrompt" /\ response # <<>>) =>
    LET text == ResponseText(response[1])
        noSection == \A i \in 1..Len(text) : LowerAtom(text[i]) # "image_prompt:"
    IN /\ error = <<>>
       /\ result # <<>>
       /\ DOMAIN result[1] = {"imagePrompt", "facts", "searchResults"}
       /\ noSection =>
            /\ result[1].imagePrompt
                 = FallbackPrompt(args.topic, getLevelInstruction(args.level),
                                  getStyleInstruction(args.style))
                     \o <<" ", QualitySentence>>
            /\ ContainsSeq(result[1].imagePrompt, args.topic)
            /\ Count(result[1].imagePrompt, getLevelInstruction(args.level)) = 1
            /\ Count(result[1].imagePrompt, getStyleInstruction(args.style)) = 1
       /\ text = <<>> => (result[1].facts = <<>> /\ noSection)

C9_Witness ==
  /\ ResearchDone
  /\ ResponseText(response[1]) # <<>>
  /\ factsMatch(ResponseText(response[1])) # <<>>
  /\ promptMatch(ResponseText(response[1])) = <<>>
  /\ ContainsSeq(result[1].imagePrompt, args.topic)

\* C10: an invocation makes exactly one remote call; a failed call ends the
\* operation with that same error, without a retry or a result; the only
\* error an operation raises itself is the missing-output error.
C10_OneCallErrorPropagated ==
  /\ calls <= 1
  /\ pc # "idle" => calls = 1
  /\ pc = "done" =>
       /\ remoteError # <<>> => (error = remoteError /\ result = <<>>)
       /\ (error # <<>> /\ remoteError = <<>>) =>
            (op \in ImageOps /\ error = <<MissingOutputError(op)>> /\ result = <<>>)
       /\ (error = <<>>) # (result = <<>>)

C10_Witness ==
  pc = "done" /\ remoteError # <<>> /\ error = remoteError /\ calls = 1

====
